---------------------------- MODULE Spec2Model ----------------------------
(* A model of the moq-transfork session engine: the responder's handshake  *)
(* (session/server.rs), the track cache (track.rs), the async queue        *)
(* (util/queue.rs), the subscription table and inbound group ingest       *)
(* (session/subscriber.rs) and the                                         *)
(* outbound group task and the publisher serve loop                        *)
(* (session/subscribed.rs, session/writer.rs).                             *)
(*                                                                         *)
(* Option<T> is modelled as a sequence of length at most one: None is <<>> *)
(* and Some(x) is <<x>>.  Result<(), E> is modelled the same way: Ok(())   *)
(* is <<>> and Err(e) is <<e>>.                                            *)
EXTENDS Integers, Sequences, FiniteSets, TLC

VARIABLES
    \* ---- handshake (session/server.rs) ----
    hsPc,           \* position of Server::role: "accept", "kind", "setup", "encode", "done"
    serverRole,     \* the role argument of Server::role
    clientMsg,      \* Option: the decoded setup::Client
    controlSent,    \* messages the responder has written on the control stream
    controlClose,   \* Option: the code the control stream was closed with
    sessionRole,    \* Option: the role handed to Session::start
    hsResult,       \* Option: the Err returned by Server::role
    \* ---- track (track.rs) ----
    latest,         \* TrackState.latest: Option of [id, sequence]
    epoch,          \* TrackState.epoch
    closed,         \* TrackState.closed: Result
    next,           \* TrackWriter.next
    writerAlive,    \* the TrackWriter handle has not been dropped
    readers,        \* TrackReader clones: [alive, epoch], and last, the sequence of the
                    \* group next() last returned to the handle (-1: none yet)
    groupsMade,     \* number of Group::new calls so far (group identities)
    discarded,      \* identities of the groups create() returned without storing
    readLast,       \* the last TrackReader::next/get return: [reader, op, res, group]
    trackLast,      \* the last TrackWriter call: [op, sequence, res, id]
    appendsOnly,    \* no create() has been called on the track so far
    appendCount,    \* number of append() calls so far
    \* ---- queue (util/queue.rs) ----
    queue,          \* the VecDeque inside the state cell
    queueClosed,    \* the cell is closed: the last handle of the other half is gone
    pushCount,      \* number of push() calls so far; the k-th pushes item k
    delivered,      \* the items pop() and drain() have returned, in order
    queueLast,      \* the last Queue call: [op, res, before, wasClosed]
    \* ---- subscriber (session/subscriber.rs) ----
    nextId,         \* Subscriber.next_id
    tracksTable,    \* the keys of Subscriber.tracks
    inPc,           \* position of recv_group/serve_group: "idle", "frame", "chunk", "done"
    inErr,          \* Option: the Err serve_group returned
    inFrames,       \* the frames created in the group: [size, written]
    inRemain,       \* serve_group's remain
    inLast,         \* the last read of the stream: [ev, len, remain]
    subPc,          \* for each id, where its subscription stands
    subTrack,       \* for each id, the track produced for its subscription
    inMade,         \* the number of create_group calls made by serve_group
    inGroup,        \* Option: the message::Group of the stream being served
    \* ---- publisher group task (session/subscribed.rs) ----
    pubPc,          \* position of run_group: "idle", "opened", "frames", "write", "done"
    pubErr,         \* Option: the Err run_group returned
    pubGroup,       \* the message::Group of the group served
    uniOut,         \* what has been written on the uni-stream, in order
    pubChunk,       \* Option: the length of the chunk read and not yet written
    \* ---- publisher serve loop (session/subscribed.rs) ----
    srvPc,          \* Subscribed::run: "none", "running", "returned", "panicked"
    srvErr,         \* Option: the Err run returned
    fin,            \* run's fin
    tasks,          \* run's tasks: the sequences of the group tasks in flight
    spawned,        \* the sequences next_group has given so far
    reaped,         \* what tasks.next() gave: records [sequence, err]
    ctrlOut,        \* the GroupDrop messages written on the control stream
    ctrlEnded,      \* the control stream's reader is at its clean end
    srvUpdate,      \* Option: self.update
    srvLast,        \* the branch the loop took last
    srvPending,     \* Option: the GroupDrop whose write the loop is waiting for
    codeOf          \* the code of each error kind (err.code())

hsVars == <<hsPc, serverRole, clientMsg, controlSent, controlClose, sessionRole, hsResult>>
trackVars == <<latest, epoch, closed, next, writerAlive, readers, groupsMade,
               discarded, readLast, trackLast, appendsOnly, appendCount>>
queueVars == <<queue, queueClosed, pushCount, delivered, queueLast>>
ingestVars == <<nextId, tracksTable, inPc, inErr, inFrames, inRemain, inLast, subPc, subTrack,
               inMade, inGroup>>
pubVars == <<pubPc, pubErr, pubGroup, uniOut, pubChunk>>
srvVars == <<srvPc, srvErr, fin, tasks, spawned, reaped, ctrlOut, ctrlEnded, srvUpdate,
             srvLast, srvPending, codeOf>>
vars == <<hsVars, trackVars, queueVars, ingestVars, pubVars, srvVars>>

None == <<>>
Some(x) == <<x>>
IsSome(o) == o # <<>>
Unwrap(o) == o[1]

-----------------------------------------------------------------------------
(* Handshake                                                               *)

Roles == {"Publisher", "Subscriber", "Both", "Any"}
FORK_00 == "FORK_00"
\* Versions a client may offer: the one the responder accepts and two others.
Versions == {FORK_00, "DRAFT_A", "DRAFT_B"}
\* The kinds of bidirectional stream (message::Stream).
StreamKinds == {"Session", "Announce", "Subscribe"}

\* MoqError values, as records of one shape.
MkErr(kind) == [kind |-> kind, got |-> {}, wanted |-> {}, client |-> "", server |-> ""]
ErrVersion(got, wanted) == [MkErr("Version") EXCEPT !.got = got, !.wanted = wanted]
ErrRoleIncompatible(c, s) == [MkErr("RoleIncompatible") EXCEPT !.client = c, !.server = s]

\* setup::Role::downgrade(self = server, client): the effective role.
downgrade(server, client) ==
    CASE server = "Publisher" ->
            IF client = "Subscriber" THEN None ELSE Some("Publisher")
      [] server = "Subscriber" ->
            IF client = "Publisher" THEN None ELSE Some("Subscriber")
      [] server = "Both" ->
            IF client = "Any" THEN Some("Both") ELSE Some(client)
      [] server = "Any" ->
            IF client = "Any" THEN None ELSE Some(client)

\* setup::Server { version, extensions: { Role } }
ServerMsg(version, role) == [version |-> version, role |-> role]

\* The error's code, as passed to Close::close by or_close.
ErrorCode(err) == err.kind

\* Mutant: the Server message carries the server's own role.
setup_sends_server_role(client, server_role, write_ok) ==
    IF client = None THEN [ret |-> None, err |-> Some(MkErr("Decode")), sent |-> <<>>]
    ELSE IF FORK_00 \notin Unwrap(client).versions
    THEN [ret |-> None, sent |-> <<>>,
          err |-> Some(ErrVersion(Unwrap(client).versions, {FORK_00}))]
    ELSE LET client_role == Unwrap(client).role
             role == downgrade(server_role, client_role)
         IN  IF role = None
             THEN [ret |-> None, sent |-> <<>>,
                   err |-> Some(ErrRoleIncompatible(client_role, server_role))]
             ELSE IF ~write_ok
             THEN [ret |-> None, sent |-> <<>>, err |-> Some(MkErr("Transport"))]
             ELSE [ret |-> Some(server_role), err |-> None,
                   sent |-> <<ServerMsg(FORK_00, server_role)>>]

\* Mutant: the role check is made before the version check.
setup_role_check_first(client, server_role, write_ok) ==
    IF client = None THEN [ret |-> None, err |-> Some(MkErr("Decode")), sent |-> <<>>]
    ELSE LET client_role == Unwrap(client).role
             role == downgrade(server_role, client_role)
         IN  IF role = None
             THEN [ret |-> None, sent |-> <<>>,
                   err |-> Some(ErrRoleIncompatible(client_role, server_role))]
             ELSE IF FORK_00 \notin Unwrap(client).versions
             THEN [ret |-> None, sent |-> <<>>,
                   err |-> Some(ErrVersion(Unwrap(client).versions, {FORK_00}))]
             ELSE IF ~write_ok
             THEN [ret |-> None, sent |-> <<>>, err |-> Some(MkErr("Transport"))]
             ELSE [ret |-> Some(server_role), err |-> None,
                   sent |-> <<ServerMsg(FORK_00, Unwrap(role))>>]

\* Server::setup(control, server_role).  client is the outcome of decoding the
\* Client message (None: the decode failed); write_ok is whether the write of
\* the Server message succeeds.  ret is the Ok value, err the Err value, sent
\* what was written on the control stream.
setup(client, server_role, write_ok) ==
    IF client = None THEN [ret |-> None, err |-> Some(MkErr("Decode")), sent |-> <<>>]
    ELSE IF FORK_00 \notin Unwrap(client).versions
    THEN [ret |-> None, sent |-> <<>>,
          err |-> Some(ErrVersion(Unwrap(client).versions, {FORK_00}))]
    ELSE LET client_role == Unwrap(client).role
             role == downgrade(server_role, client_role)
         IN  IF role = None
             THEN [ret |-> None, sent |-> <<>>,
                   err |-> Some(ErrRoleIncompatible(client_role, server_role))]
             ELSE IF ~write_ok
             THEN [ret |-> None, sent |-> <<>>, err |-> Some(MkErr("Transport"))]
             ELSE [ret |-> Some(server_role), err |-> None,
                   sent |-> <<ServerMsg(FORK_00, Unwrap(role))>>]

\* The Client messages a peer may send: a set of versions and a Role extension.
ClientMsgs == [versions : SUBSET Versions, role : Roles]

InitHandshake ==
    /\ hsPc = "accept"
    /\ serverRole = ""
    /\ clientMsg = None
    /\ controlSent = <<>>
    /\ controlClose = None
    /\ sessionRole = None
    /\ hsResult = None

\* Server::role(role) at self.session.accept().await?: a stream is accepted,
\* or the accept fails.
role_accept(role, accepted) ==
    /\ hsPc = "accept"
    /\ serverRole' = role
    /\ IF ~accepted
       THEN /\ hsPc' = "done"
            /\ hsResult' = Some(MkErr("Transport"))
       ELSE /\ hsPc' = "kind"
            /\ hsResult' = None
    /\ UNCHANGED <<clientMsg, controlSent, controlClose, sessionRole>>

\* Server::role at stream.reader.decode_silent().await?: the kind of the
\* stream is decoded (None: the decode fails), and a kind other than Session
\* is an error.
role_kind(kind) ==
    /\ hsPc = "kind"
    /\ IF kind = None
       THEN /\ hsPc' = "done"
            /\ hsResult' = Some(MkErr("Decode"))
       ELSE IF Unwrap(kind) # "Session"
       THEN /\ hsPc' = "done"
            /\ hsResult' = Some(MkErr("UnexpectedStream"))
       ELSE /\ hsPc' = "setup"
            /\ hsResult' = None
    /\ UNCHANGED <<serverRole, clientMsg, controlSent, controlClose, sessionRole>>

\* Server::role in setup, from control.reader.decode().await up to the await
\* of control.writer.encode(&server): the Client message is decoded and
\* checked; an error here is returned through or_close, otherwise setup
\* waits for the write with nothing written yet.
role_setup(client) ==
    /\ hsPc = "setup"
    /\ clientMsg' = client
    /\ LET r == setup(client, serverRole, TRUE)
       IN  IF r.err # None
           THEN /\ hsPc' = "done"
                /\ hsResult' = r.err
                /\ controlClose' = Some(ErrorCode(Unwrap(r.err)))
           ELSE /\ hsPc' = "encode"
                /\ UNCHANGED <<hsResult, controlClose>>
    /\ UNCHANGED <<serverRole, controlSent, sessionRole>>

\* Server::role from the write of the Server message on: the write succeeds
\* or fails (write_ok), or_close on the error, and Session::start with the
\* role setup returned.
role_encode(write_ok) ==
    /\ hsPc = "encode"
    /\ LET r == setup(clientMsg, serverRole, write_ok)
       IN  /\ controlSent' = controlSent \o r.sent
           /\ hsResult' = r.err
           /\ controlClose' = IF r.err # None THEN Some(ErrorCode(Unwrap(r.err))) ELSE None
           /\ sessionRole' = r.ret
    /\ hsPc' = "done"
    /\ UNCHANGED <<serverRole, clientMsg>>

NextHandshake ==
    /\ \/ \E r \in Roles, accepted \in BOOLEAN : role_accept(r, accepted)
       \/ \E kind \in {None} \cup {Some(k) : k \in StreamKinds} : role_kind(kind)
       \/ \E client \in {None} \cup {Some(c) : c \in ClientMsgs} : role_setup(client)
       \/ \E write_ok \in BOOLEAN : role_encode(write_ok)
    /\ UNCHANGED <<trackVars, queueVars, ingestVars, pubVars, srvVars>>

-----------------------------------------------------------------------------
(* Track                                                                   *)

\* Group sequences passed to create() range over 0..MaxSeq.
MaxSeq == 2
\* At most MaxOps groups are created on the track.
MaxOps == 3

ReaderIds == {"r1", "r2"}
\* The errors a caller passes to TrackWriter::close.
CloseErrors == {"Cancel", "NotFound"}

\* Group::new(sequence).produce(): id tells two groups of one sequence apart.
Group(id, sequence) == [id |-> id, sequence |-> sequence]

\* State::lock_mut / StateRef::into_mut return Some, and StateRef::modified
\* returns Some, while the cell is open: the cell is closed once the writer
\* handle or every reader handle has been dropped.
lock_mut == writerAlive /\ \E r \in ReaderIds : readers[r].alive

\* Mutant: a smaller sequence is stored like a greater one.
create_outcome_less_stores(lat, sequence) ==
    IF lat = None THEN "Store"
    ELSE IF sequence = Unwrap(lat).sequence THEN "Duplicate"
    ELSE "Store"

\* Mutant: an equal sequence is stored like a greater one.
create_outcome_equal_stores(lat, sequence) ==
    IF lat = None THEN "Store"
    ELSE IF sequence < Unwrap(lat).sequence THEN "Discard"
    ELSE "Store"

\* TrackWriter::create, the match on writer.sequence.cmp(&latest.sequence).
create_outcome(lat, sequence) ==
    IF lat = None THEN "Store"
    ELSE IF sequence < Unwrap(lat).sequence THEN "Discard"
    ELSE IF sequence = Unwrap(lat).sequence THEN "Duplicate"
    ELSE "Store"

\* Mutant: the cached next sequence is the latest sequence itself.
next_sequence_no_increment(lat) == Unwrap(lat).sequence

\* TrackWriter::create, "Cache the next sequence number".
next_sequence(lat) == Unwrap(lat).sequence + 1

NoCall == [op |-> "none", sequence |-> 0, res |-> "", id |-> 0]
NoResult == [reader |-> "", op |-> "none", res |-> "", group |-> None]

InitTrack ==
    /\ latest = None
    /\ epoch = 0
    /\ closed = None
    /\ next = 0
    /\ writerAlive = TRUE
    /\ readers = [r \in ReaderIds |-> [alive |-> (r = "r1"), epoch |-> 0, last |-> -1]]
    /\ groupsMade = 0
    /\ discarded = {}
    /\ readLast = NoResult
    /\ trackLast = NoCall
    /\ appendsOnly = TRUE
    /\ appendCount = 0

\* The body of TrackWriter::create(sequence), called as op ("create" or,
\* through append, "append").
create_body(op, sequence) ==
    LET id == groupsMade + 1
        out == create_outcome(latest, sequence)
    IN  /\ groupsMade' = id
        /\ IF ~lock_mut
           THEN /\ trackLast' = [op |-> op, sequence |-> sequence, res |-> "Cancel", id |-> 0]
                /\ UNCHANGED <<latest, epoch, next, discarded>>
           ELSE IF out = "Discard"
           THEN /\ trackLast' = [op |-> op, sequence |-> sequence, res |-> "Ok", id |-> id]
                /\ discarded' = discarded \cup {id}
                /\ UNCHANGED <<latest, epoch, next>>
           ELSE IF out = "Duplicate"
           THEN /\ trackLast' = [op |-> op, sequence |-> sequence, res |-> "Duplicate", id |-> 0]
                /\ UNCHANGED <<latest, epoch, next, discarded>>
           ELSE /\ trackLast' = [op |-> op, sequence |-> sequence, res |-> "Ok", id |-> id]
                /\ latest' = Some(Group(id, sequence))
                /\ epoch' = epoch + 1
                /\ next' = next_sequence(latest')
                /\ UNCHANGED discarded
        /\ UNCHANGED <<closed, writerAlive, readers, readLast>>

TrackWriter_create(sequence) ==
    /\ writerAlive
    /\ groupsMade < MaxOps
    /\ create_body("create", sequence)
    /\ appendsOnly' = FALSE
    /\ UNCHANGED appendCount

TrackWriter_append ==
    /\ writerAlive
    /\ groupsMade < MaxOps
    /\ create_body("append", next)
    /\ appendCount' = appendCount + 1
    /\ UNCHANGED appendsOnly

\* Mutant: a later close replaces the terminal error.
TrackWriter_close_overwrites(err) ==
    /\ writerAlive
    /\ IF ~lock_mut
       THEN /\ trackLast' = [op |-> "close", sequence |-> 0, res |-> "Cancel", id |-> 0]
            /\ UNCHANGED closed
       ELSE /\ trackLast' = [op |-> "close", sequence |-> 0, res |-> "Ok", id |-> 0]
            /\ closed' = Some(err)
    /\ UNCHANGED <<latest, epoch, next, writerAlive, readers, groupsMade, discarded,
                   readLast, appendsOnly, appendCount>>

\* TrackWriter::close(err)
TrackWriter_close(err) ==
    /\ writerAlive
    /\ IF closed # None
       THEN /\ trackLast' = [op |-> "close", sequence |-> 0, res |-> Unwrap(closed), id |-> 0]
            /\ UNCHANGED closed
       ELSE IF ~lock_mut
       THEN /\ trackLast' = [op |-> "close", sequence |-> 0, res |-> "Cancel", id |-> 0]
            /\ UNCHANGED closed
       ELSE /\ trackLast' = [op |-> "close", sequence |-> 0, res |-> "Ok", id |-> 0]
            /\ closed' = Some(err)
    /\ UNCHANGED <<latest, epoch, next, writerAlive, readers, groupsMade, discarded,
                   readLast, appendsOnly, appendCount>>

\* The TrackWriter is dropped.
TrackWriter_drop ==
    /\ writerAlive
    /\ writerAlive' = FALSE
    /\ UNCHANGED <<latest, epoch, closed, next, readers, groupsMade, discarded,
                   readLast, trackLast, appendsOnly, appendCount>>

\* TrackReader::get(sequence)
TrackReader_get(r, sequence) ==
    /\ readers[r].alive
    /\ readLast' = [reader |-> r, op |-> "get", res |-> "Ok",
           group |-> IF IsSome(latest) /\ Unwrap(latest).sequence = sequence
                     THEN latest ELSE None]
    /\ UNCHANGED <<latest, epoch, closed, next, writerAlive, readers, groupsMade,
                   discarded, trackLast, appendsOnly, appendCount>>

\* Mutant: the cursor is shared, so a next() moves every clone's epoch.
TrackReader_next_shared_cursor(r) ==
    /\ readers[r].alive
    /\ IF readers[r].epoch # epoch
       THEN /\ readers' = [x \in ReaderIds |->
                              IF x = r
                              THEN [readers[x] EXCEPT !.epoch = epoch,
                                                      !.last = Unwrap(latest).sequence]
                              ELSE [readers[x] EXCEPT !.epoch = epoch]]
            /\ readLast' = [reader |-> r, op |-> "next", res |-> "Ok", group |-> latest]
       ELSE IF closed # None
       THEN /\ readLast' = [reader |-> r, op |-> "next", res |-> Unwrap(closed), group |-> None]
            /\ UNCHANGED readers
       ELSE /\ ~lock_mut
            /\ readLast' = [reader |-> r, op |-> "next", res |-> "Ok", group |-> None]
            /\ UNCHANGED readers
    /\ UNCHANGED <<latest, epoch, closed, next, writerAlive, groupsMade,
                   discarded, trackLast, appendsOnly, appendCount>>

\* Mutant: the terminal error is reported before a pending group.
TrackReader_next_closed_first(r) ==
    /\ readers[r].alive
    /\ IF closed # None
       THEN /\ readLast' = [reader |-> r, op |-> "next", res |-> Unwrap(closed), group |-> None]
            /\ UNCHANGED readers
       ELSE IF readers[r].epoch # epoch
       THEN /\ readers' = [readers EXCEPT ![r].epoch = epoch,
                                          ![r].last = Unwrap(latest).sequence]
            /\ readLast' = [reader |-> r, op |-> "next", res |-> "Ok", group |-> latest]
       ELSE /\ ~lock_mut
            /\ readLast' = [reader |-> r, op |-> "next", res |-> "Ok", group |-> None]
            /\ UNCHANGED readers
    /\ UNCHANGED <<latest, epoch, closed, next, writerAlive, groupsMade,
                   discarded, trackLast, appendsOnly, appendCount>>

\* TrackReader::next(): one call, from entry to return.  The call returns when
\* the epoch has advanced, when the track is closed, or when modified() is
\* None; otherwise it waits and the action is not enabled.
TrackReader_next(r) ==
    /\ readers[r].alive
    /\ IF readers[r].epoch # epoch
       THEN /\ readers' = [readers EXCEPT ![r].epoch = epoch,
                                          ![r].last = Unwrap(latest).sequence]
            /\ readLast' = [reader |-> r, op |-> "next", res |-> "Ok", group |-> latest]
       ELSE IF closed # None
       THEN /\ readLast' = [reader |-> r, op |-> "next", res |-> Unwrap(closed), group |-> None]
            /\ UNCHANGED readers
       ELSE /\ ~lock_mut
            /\ readLast' = [reader |-> r, op |-> "next", res |-> "Ok", group |-> None]
            /\ UNCHANGED readers
    /\ UNCHANGED <<latest, epoch, closed, next, writerAlive, groupsMade,
                   discarded, trackLast, appendsOnly, appendCount>>

\* TrackReader::closed(): one call, from entry to return.  The call returns
\* the terminal error when the track is closed, Ok(()) when modified() is
\* None; otherwise it waits and the action is not enabled.
TrackReader_closed(r) ==
    /\ readers[r].alive
    /\ IF closed # None
       THEN readLast' = [reader |-> r, op |-> "closed", res |-> Unwrap(closed), group |-> None]
       ELSE /\ ~lock_mut
            /\ readLast' = [reader |-> r, op |-> "closed", res |-> "Ok", group |-> None]
    /\ UNCHANGED <<latest, epoch, closed, next, writerAlive, readers, groupsMade,
                   discarded, trackLast, appendsOnly, appendCount>>

\* TrackReader::clone(): r2 becomes a copy of r.
TrackReader_clone(r, r2) ==
    /\ readers[r].alive
    /\ ~readers[r2].alive
    /\ readers' = [readers EXCEPT ![r2] = readers[r]]
    /\ UNCHANGED <<latest, epoch, closed, next, writerAlive, groupsMade,
                   discarded, readLast, trackLast, appendsOnly, appendCount>>

\* A TrackReader is dropped.
TrackReader_drop(r) ==
    /\ readers[r].alive
    /\ readers' = [readers EXCEPT ![r].alive = FALSE]
    /\ UNCHANGED <<latest, epoch, closed, next, writerAlive, groupsMade,
                   discarded, readLast, trackLast, appendsOnly, appendCount>>

NextTrack ==
    /\ \/ \E sequence \in 0..MaxSeq : TrackWriter_create(sequence)
       \/ TrackWriter_append
       \/ \E err \in CloseErrors : TrackWriter_close(err)
       \/ TrackWriter_drop
       \/ \E r \in ReaderIds, sequence \in 0..MaxSeq : TrackReader_get(r, sequence)
       \/ \E r \in ReaderIds : TrackReader_next(r)
       \/ \E r \in ReaderIds : TrackReader_closed(r)
       \/ \E r, r2 \in ReaderIds : TrackReader_clone(r, r2)
       \/ \E r \in ReaderIds : TrackReader_drop(r)
    /\ UNCHANGED <<hsVars, queueVars, ingestVars, pubVars, srvVars>>

-----------------------------------------------------------------------------
(* Queue                                                                   *)

\* At most MaxPush items are pushed.
MaxPush == 4

NoQueueCall == [op |-> "none", res |-> None, before |-> <<>>, wasClosed |-> FALSE]

InitQueue ==
    /\ queue = <<>>
    /\ queueClosed = FALSE
    /\ pushCount = 0
    /\ delivered = <<>>
    /\ queueLast = NoQueueCall

\* Queue::push(item): Err(item) when lock_mut() is None.
Queue_push ==
    /\ pushCount < MaxPush
    /\ pushCount' = pushCount + 1
    /\ queue' = IF queueClosed THEN queue ELSE Append(queue, pushCount + 1)
    /\ queueLast' = [op |-> "push", before |-> queue, wasClosed |-> queueClosed,
                     res |-> IF queueClosed THEN Some(pushCount + 1) ELSE None]
    /\ UNCHANGED <<queueClosed, delivered>>

\* Mutant: pop returns the front item and leaves it in the queue.
pop_result_peek(q, isClosed) ==
    IF q # <<>>
    THEN IF isClosed THEN [ret |-> None, rest |-> q]
         ELSE [ret |-> Some(Head(q)), rest |-> q]
    ELSE [ret |-> None, rest |-> q]

\* Queue::pop(), one pass of its loop that returns: a non-empty queue gives
\* queue.into_mut()?.pop_front(), an empty one gives None through
\* queue.modified()? when the cell is closed.
pop_result(q, isClosed) ==
    IF q # <<>>
    THEN IF isClosed THEN [ret |-> None, rest |-> q]
         ELSE [ret |-> Some(Head(q)), rest |-> Tail(q)]
    ELSE [ret |-> None, rest |-> q]

\* Queue::pop(): the call returns when the queue is not empty or the cell is
\* closed; otherwise it waits and the action is not enabled.
Queue_pop ==
    /\ queue # <<>> \/ queueClosed
    /\ LET r == pop_result(queue, queueClosed)
       IN  /\ queue' = r.rest
           /\ delivered' = delivered \o r.ret
           /\ queueLast' = [op |-> "pop", before |-> queue, wasClosed |-> queueClosed,
                            res |-> r.ret]
    /\ UNCHANGED <<queueClosed, pushCount>>

\* Queue::drain(): everything in the queue, or nothing when lock_mut() is None.
Queue_drain ==
    /\ queue' = IF queueClosed THEN queue ELSE <<>>
    /\ delivered' = IF queueClosed THEN delivered ELSE delivered \o queue
    /\ queueLast' = [op |-> "drain", before |-> queue, wasClosed |-> queueClosed,
                     res |-> None]
    /\ UNCHANGED <<queueClosed, pushCount>>

\* The last handle of the other half of the queue is dropped: the cell closes.
Queue_close ==
    /\ ~queueClosed
    /\ queueClosed' = TRUE
    /\ UNCHANGED <<queue, pushCount, delivered, queueLast>>

NextQueue ==
    /\ \/ Queue_push
       \/ Queue_pop
       \/ Queue_drain
       \/ Queue_close
    /\ UNCHANGED <<hsVars, trackVars, ingestVars, pubVars, srvVars>>

-----------------------------------------------------------------------------
(* Subscriber: the subscription table and inbound group ingest             *)

\* At most MaxSubs subscriptions are made.
MaxSubs == 2
\* Frame sizes range over 0..MaxSize; a chunk has at most MaxSize + 1 bytes.
MaxSize == 2
\* At most MaxFrames frames are read from one stream.
MaxFrames == 2

\* serve_group calls create_group at most MaxGroups times.
MaxGroups == 2

NoRead == [ev |-> "none", len |-> 0, remain |-> 0]

\* Mutant: the writer is not put in the table.
tracks_insert_skipped(table, id) == table

\* self.tracks.lock().insert(id, writer)
tracks_insert(table, id) == table \cup {id}

\* Mutant: the entry stays in the table.
tracks_remove_skipped(table, id) == table

\* self.tracks.lock().remove(&self.id)
tracks_remove(table, id) == table \ {id}

\* The ids a subscription can have.
SubIds == 0..(MaxSubs - 1)

\* The track of an id no subscription has taken.
NoTrack == [latest |-> None, epoch |-> 0, closed |-> None, next |-> 0,
            writer |-> FALSE, readers |-> 0]

\* Track::produce(): a fresh TrackState, one TrackWriter and one TrackReader.
Track_produce == [latest |-> None, epoch |-> 0, closed |-> None, next |-> 0,
                  writer |-> TRUE, readers |-> 1]

\* TrackWriter::create(sequence) on the track t, the group made being the
\* id-th: the track after the call and the call's result.
track_create(t, id, sequence) ==
    LET out == create_outcome(t.latest, sequence)
        group == Some(Group(id, sequence))
    IN  IF ~(t.writer /\ t.readers > 0) THEN [track |-> t, res |-> "Cancel"]
        ELSE IF out = "Discard" THEN [track |-> t, res |-> "Ok"]
        ELSE IF out = "Duplicate" THEN [track |-> t, res |-> "Duplicate"]
        ELSE [track |-> [t EXCEPT !.latest = group, !.epoch = t.epoch + 1,
                                  !.next = next_sequence(group)],
              res |-> "Ok"]

InitIngest ==
    /\ nextId = 0
    /\ tracksTable = {}
    /\ inPc = "idle"
    /\ inErr = None
    /\ inFrames = <<>>
    /\ inRemain = 0
    /\ inLast = NoRead
    /\ subPc = [id \in SubIds |-> "none"]
    /\ subTrack = [id \in SubIds |-> NoTrack]
    /\ inMade = 0
    /\ inGroup = None

\* Subscriber::init_subscribe, the first statement of subscribe_inner: take
\* the next id, produce a fresh track and put its writer in the table; the
\* Subscribe object holds the reader.
init_subscribe ==
    /\ nextId < MaxSubs
    /\ nextId' = nextId + 1
    /\ tracksTable' = tracks_insert(tracksTable, nextId)
    /\ subPc' = [subPc EXCEPT ![nextId] = "init"]
    /\ subTrack' = [subTrack EXCEPT ![nextId] = Track_produce]
    /\ UNCHANGED <<inPc, inErr, inFrames, inRemain, inLast, inMade, inGroup>>

\* Drop for Subscribe of the subscription id: its entry is removed, and the
\* TrackWriter the entry held goes with it, as does sub.track, the
\* TrackReader the object held.
Subscribe_drop(id) ==
    /\ tracksTable' = tracks_remove(tracksTable, id)
    /\ subPc' = [subPc EXCEPT ![id] = "ended"]
    /\ subTrack' = [subTrack EXCEPT
                       ![id].writer = FALSE,
                       ![id].readers = subTrack[id].readers - 1]

\* subscribe_inner at session.open(Stream::Subscribe).await?: on failure the
\* function returns and sub is dropped.
subscribe_inner_open(id, ok) ==
    /\ subPc[id] = "init"
    /\ IF ok
       THEN subPc' = [subPc EXCEPT ![id] = "open"] /\ UNCHANGED <<tracksTable, subTrack>>
       ELSE Subscribe_drop(id)
    /\ UNCHANGED <<nextId, inPc, inErr, inFrames, inRemain, inLast, inMade, inGroup>>

\* start_subscribe at stream.writer.encode(&request).await?: the Subscribe
\* message is sent, or the error ends subscribe_inner and sub is dropped.
start_subscribe_encode(id, ok) ==
    /\ subPc[id] = "open"
    /\ IF ok
       THEN subPc' = [subPc EXCEPT ![id] = "sent"] /\ UNCHANGED <<tracksTable, subTrack>>
       ELSE Subscribe_drop(id)
    /\ UNCHANGED <<nextId, inPc, inErr, inFrames, inRemain, inLast, inMade, inGroup>>

\* start_subscribe at stream.reader.decode::<Info>().await?: the reply
\* arrives, sub.track is cloned for the caller and run_subscribe is spawned
\* with sub, or the error ends subscribe_inner and sub is dropped.
start_subscribe_decode(id, ok) ==
    /\ subPc[id] = "sent"
    /\ IF ok
       THEN /\ subPc' = [subPc EXCEPT ![id] = "live"]
            /\ subTrack' = [subTrack EXCEPT ![id].readers = subTrack[id].readers + 1]
            /\ UNCHANGED tracksTable
       ELSE Subscribe_drop(id)
    /\ UNCHANGED <<nextId, inPc, inErr, inFrames, inRemain, inLast, inMade, inGroup>>

\* run_subscribe returns and sub is dropped: decode_maybe::<GroupDrop>() gave
\* None ("end") or an error ("error"), or sub.track.closed() gave the Err the
\* track was closed with ("closed"; an Ok(()) from it goes round the loop).
run_subscribe_return(id, ev) ==
    /\ subPc[id] = "live"
    /\ ev = "closed" => IsSome(subTrack[id].closed)
    /\ Subscribe_drop(id)
    /\ UNCHANGED <<nextId, inPc, inErr, inFrames, inRemain, inLast, inMade, inGroup>>

\* Mutant: a chunk longer than the bytes remaining is accepted.
checked_sub_saturating(remain, len) ==
    IF len > remain THEN Some(0) ELSE Some(remain - len)

\* usize::checked_sub, as used on remain and chunk.len().
checked_sub(remain, len) ==
    IF len > remain THEN None ELSE Some(remain - len)

\* recv_group and the head of serve_group: decode the Group message (group is
\* None when the decode fails), find the track writer of group.subscribe and
\* create the group on it.
serve_group_start(group) ==
    /\ inPc \in {"idle", "done"}
    /\ inMade < MaxGroups
    /\ inFrames' = <<>>
    /\ inRemain' = 0
    /\ inLast' = NoRead
    /\ inGroup' = group
    /\ IF group = None
       THEN /\ inPc' = "done"
            /\ inErr' = Some("Decode")
            /\ UNCHANGED <<subTrack, inMade>>
       ELSE IF Unwrap(group).subscribe \notin tracksTable
       THEN /\ inPc' = "done"
            /\ inErr' = Some("NotFound")
            /\ UNCHANGED <<subTrack, inMade>>
       ELSE LET N == Unwrap(group).subscribe
                made == track_create(subTrack[N], inMade + 1, Unwrap(group).sequence)
            IN  /\ inMade' = inMade + 1
                /\ subTrack' = [subTrack EXCEPT ![N] = made.track]
                /\ IF made.res = "Ok"
                   THEN inPc' = "frame" /\ inErr' = None
                   ELSE inPc' = "done" /\ inErr' = Some(made.res)
    /\ UNCHANGED <<nextId, tracksTable, subPc>>

\* serve_group at decode_maybe::<Frame>: the stream ends (frame is None and
\* ok), fails (not ok), or gives a Frame header, for which a frame of that
\* size is created (created: create_frame succeeds).
serve_group_frame(frame, ok, created) ==
    /\ inPc = "frame"
    /\ IF ~ok
       THEN /\ inPc' = "done"
            /\ inErr' = Some("Decode")
            /\ inLast' = [ev |-> "error", len |-> 0, remain |-> inRemain]
            /\ UNCHANGED <<inFrames, inRemain>>
       ELSE IF frame = None
       THEN /\ inPc' = "done"
            /\ inErr' = None
            /\ inLast' = [ev |-> "end", len |-> 0, remain |-> inRemain]
            /\ UNCHANGED <<inFrames, inRemain>>
       ELSE /\ Len(inFrames) < MaxFrames
            /\ inLast' = [ev |-> "frame", len |-> Unwrap(frame), remain |-> inRemain]
            /\ IF ~created
               THEN /\ inPc' = "done"
                    /\ inErr' = Some("Cancel")
                    /\ UNCHANGED <<inFrames, inRemain>>
               ELSE /\ inFrames' = Append(inFrames, [size |-> Unwrap(frame), written |-> 0])
                    /\ inRemain' = Unwrap(frame)
                    /\ inPc' = IF Unwrap(frame) > 0 THEN "chunk" ELSE "frame"
                    /\ inErr' = None
    /\ UNCHANGED <<nextId, tracksTable, subPc, subTrack, inMade, inGroup>>

\* serve_group at read_chunk(remain): the read fails (not ok), the stream ends
\* (chunk is None), or a chunk of Unwrap(chunk) bytes arrives and, when it fits,
\* is written into the frame (stored: write_chunk succeeds).
serve_group_chunk(chunk, ok, stored) ==
    /\ inPc = "chunk"
    /\ IF ~ok
       THEN /\ inPc' = "done"
            /\ inErr' = Some("Transport")
            /\ inLast' = [ev |-> "error", len |-> 0, remain |-> inRemain]
            /\ UNCHANGED <<inFrames, inRemain>>
       ELSE IF chunk = None
       THEN /\ inPc' = "done"
            /\ inErr' = Some("WrongSize")
            /\ inLast' = [ev |-> "end", len |-> 0, remain |-> inRemain]
            /\ UNCHANGED <<inFrames, inRemain>>
       ELSE LET len == Unwrap(chunk)
                left == checked_sub(inRemain, len)
                n == Len(inFrames)
            IN  /\ inLast' = [ev |-> "chunk", len |-> len, remain |-> inRemain]
                /\ IF left = None
                   THEN /\ inPc' = "done"
                        /\ inErr' = Some("WrongSize")
                        /\ UNCHANGED <<inFrames, inRemain>>
                   ELSE /\ inRemain' = Unwrap(left)
                        /\ IF ~stored
                           THEN /\ inPc' = "done"
                                /\ inErr' = Some("Cancel")
                                /\ UNCHANGED inFrames
                           ELSE /\ inFrames' = [inFrames EXCEPT
                                                   ![n].written = inFrames[n].written + len]
                                /\ inPc' = IF Unwrap(left) > 0 THEN "chunk" ELSE "frame"
                                /\ inErr' = None
    /\ UNCHANGED <<nextId, tracksTable, subPc, subTrack, inMade, inGroup>>

\* The Group messages a peer may send.
GroupMsgs == [subscribe : 0..MaxSubs, sequence : 0..MaxSeq]

\* Group ingest: subscriptions are made, and group streams are read frame by
\* frame and chunk by chunk.
NextIngest ==
    /\ \/ init_subscribe
       \/ \E group \in {None} \cup {Some(g) : g \in GroupMsgs} : serve_group_start(group)
       \/ \E frame \in {None} \cup {Some(n) : n \in 0..MaxSize}, ok, created \in BOOLEAN :
             serve_group_frame(frame, ok, created)
       \/ \E chunk \in {None} \cup {Some(n) : n \in 0..(MaxSize + 1)}, ok, stored \in BOOLEAN :
             serve_group_chunk(chunk, ok, stored)
    /\ UNCHANGED <<hsVars, trackVars, queueVars, pubVars, srvVars>>

\* The subscription table: subscriptions are made, go through their steps and
\* end, in any interleaving, while group streams arrive for any id.  The
\* streams carry no frame here: the frame and chunk steps of serve_group read
\* neither the table nor a subscription.
NextSubscribe ==
    /\ \/ init_subscribe
       \/ \E id \in SubIds, ok \in BOOLEAN : subscribe_inner_open(id, ok)
       \/ \E id \in SubIds, ok \in BOOLEAN : start_subscribe_encode(id, ok)
       \/ \E id \in SubIds, ok \in BOOLEAN : start_subscribe_decode(id, ok)
       \/ \E id \in SubIds, ev \in {"end", "error", "closed"} : run_subscribe_return(id, ev)
       \/ \E group \in {None} \cup {Some(g) : g \in GroupMsgs} : serve_group_start(group)
       \/ \E ok \in BOOLEAN : serve_group_frame(None, ok, TRUE)
    /\ UNCHANGED <<hsVars, trackVars, queueVars, pubVars, srvVars>>

-----------------------------------------------------------------------------
(* Publisher: the group task                                               *)

\* A group task writes at most MaxChunks chunks.
MaxChunks == 3

\* What a uni-stream carries, as records of one shape: the StreamUni tag, the
\* Group message, a Frame header and raw bytes.
TagItem(tag) == [t |-> "tag", tag |-> tag, subscribe |-> 0, sequence |-> 0, expires |-> None, n |-> 0]
GroupItem(g) == [t |-> "Group", tag |-> "", subscribe |-> g.subscribe, sequence |-> g.sequence,
                 expires |-> g.expires, n |-> 0]
FrameItem(size) == [t |-> "Frame", tag |-> "", subscribe |-> 0, sequence |-> 0, expires |-> None, n |-> size]
BytesItem(len) == [t |-> "bytes", tag |-> "", subscribe |-> 0, sequence |-> 0, expires |-> None, n |-> len]

NoGroup == [subscribe |-> 0, sequence |-> 0, expires |-> None]

InitPublish ==
    /\ pubPc = "idle"
    /\ pubErr = None
    /\ pubGroup = NoGroup
    /\ uniOut = <<>>
    /\ pubChunk = None

\* Subscribed::run_group: session.open_uni() and Writer::new(stream), for the
\* group of the given sequence and expires on the subscription with this id.
run_group_open(id, sequence, expires, ok) ==
    /\ pubPc \in {"idle", "done"}
    /\ pubGroup' = [subscribe |-> id, sequence |-> sequence, expires |-> expires]
    /\ uniOut' = <<>>
    /\ pubChunk' = None
    /\ IF ok THEN pubPc' = "opened" /\ pubErr' = None
       ELSE pubPc' = "done" /\ pubErr' = Some("Transport")

\* Subscribed::run_group: writer.encode(&msg) of the message::Group.
run_group_header(ok) ==
    /\ pubPc = "opened"
    /\ IF ok
       THEN /\ uniOut' = Append(uniOut, GroupItem(pubGroup))
            /\ pubPc' = "frames"
            /\ pubErr' = None
       ELSE /\ pubPc' = "done"
            /\ pubErr' = Some("Transport")
            /\ UNCHANGED uniOut
    /\ UNCHANGED <<pubGroup, pubChunk>>

\* Subscribed::run_group at group.read().await?: the read fails (not
\* read_ok), ends the group (chunk is None), or gives a chunk, which the task
\* holds while it waits for the write.
run_group_read(chunk, read_ok) ==
    /\ pubPc = "frames"
    /\ IF ~read_ok
       THEN /\ pubPc' = "done"
            /\ pubErr' = Some("Cancel")
            /\ UNCHANGED pubChunk
       ELSE IF chunk = None
       THEN /\ pubPc' = "done"
            /\ pubErr' = None
            /\ UNCHANGED pubChunk
       ELSE /\ Len(uniOut) <= MaxChunks
            /\ pubPc' = "write"
            /\ pubErr' = None
            /\ pubChunk' = chunk
    /\ UNCHANGED <<pubGroup, uniOut>>

\* Subscribed::run_group at writer.write(&chunk).await?: Writer::write calls
\* stream.write once and drops the count it returns, so the stream takes
\* taken bytes of the chunk, all of them or fewer, or the write fails (not
\* ok).
run_group_write(taken, ok) ==
    /\ pubPc = "write"
    /\ pubChunk' = None
    /\ IF ok
       THEN /\ taken \in 1..Unwrap(pubChunk)
            /\ uniOut' = Append(uniOut, BytesItem(taken))
            /\ pubPc' = "frames"
            /\ pubErr' = None
       ELSE /\ pubPc' = "done"
            /\ pubErr' = Some("Transport")
            /\ UNCHANGED uniOut
    /\ UNCHANGED pubGroup

NextPublish ==
    /\ \/ \E id \in 0..MaxSubs, sequence \in 0..MaxSeq,
            expires \in {None, Some(1)}, ok \in BOOLEAN :
              run_group_open(id, sequence, expires, ok)
       \/ \E ok \in BOOLEAN : run_group_header(ok)
       \/ \E chunk \in {None} \cup {Some(n) : n \in 1..MaxSize}, read_ok \in BOOLEAN :
              run_group_read(chunk, read_ok)
       \/ \E taken \in 1..MaxSize, ok \in BOOLEAN : run_group_write(taken, ok)
    /\ UNCHANGED <<hsVars, trackVars, queueVars, ingestVars, srvVars>>

-----------------------------------------------------------------------------
(* Publisher: the serve loop of a subscription                             *)

\* The track gives at most MaxServed groups to one serve loop.
MaxServed == 2
\* Error codes range over 0..MaxCode.
MaxCode == 2

\* The code the loop puts in a GroupDrop.
GROUP_DROP_CODE == 1

\* The errors a group task can end with, by kind.
TaskErrors == {"Transport", "Cancel"}

\* The assignments of a code to each kind of error, distinct kinds having
\* distinct codes.
CodeMaps ==
    {f \in [TaskErrors -> 0..MaxCode] : \A a, b \in TaskErrors : a # b => f[a] # f[b]}

\* The SubscribeUpdate messages a peer may send.
Updates == {"update"}

\* message::GroupDrop
GroupDrop(sequence, count, code) == [sequence |-> sequence, count |-> count, code |-> code]

InitServe ==
    /\ srvPc = "none"
    /\ srvErr = None
    /\ fin = FALSE
    /\ tasks = {}
    /\ spawned = {}
    /\ reaped = {}
    /\ ctrlOut = <<>>
    /\ ctrlEnded = FALSE
    /\ srvUpdate = None
    /\ srvLast = "none"
    /\ srvPending = None
    /\ codeOf = [k \in TaskErrors |-> 0]

\* Subscribed::new and the head of run: no task, fin false, no update.  The
\* codes of the error kinds are those of the build, whichever they are.
Subscribed_new(codes) ==
    /\ srvPc = "none"
    /\ srvPc' = "running"
    /\ codeOf' = codes
    /\ UNCHANGED <<srvErr, fin, tasks, spawned, reaped, ctrlOut, ctrlEnded, srvUpdate, srvLast,
                   srvPending>>

\* run returns Err(kind): the tasks still in flight are dropped with it.
run_return_err(kind) ==
    /\ srvPc' = "returned"
    /\ srvErr' = Some(kind)
    /\ tasks' = {}

\* The select! of the loop has no else branch: entered with fin set, tasks
\* empty and the control stream at its end, every branch is disabled and it
\* panics.
all_disabled(f, t, ended) == f /\ t = {} /\ ended

\* The loop goes round to its select after the branch named last, with these
\* values of fin, tasks and the end of the control stream.
run_select(last, f, t, ended) ==
    IF all_disabled(f, t, ended)
    THEN srvPc' = "panicked" /\ srvLast' = "select"
    ELSE srvPc' = "running" /\ srvLast' = last

\* The first select branch, enabled while fin is false: track.next_group()
\* gives Err(e) (err is Some(e)), Ok(None) (group is None) or Ok(Some(group))
\* with the group's sequence, for which a group task is pushed.
run_next_group(err, group) ==
    /\ srvPc = "running"
    /\ srvPending = None
    /\ ~fin
    /\ IF IsSome(err)
       THEN /\ run_return_err(Unwrap(err))
            /\ srvLast' = "error"
            /\ UNCHANGED <<fin, spawned>>
       ELSE IF group = None
       THEN /\ fin' = TRUE
            /\ run_select("fin", TRUE, tasks, ctrlEnded)
            /\ UNCHANGED <<srvErr, tasks, spawned>>
       ELSE /\ Unwrap(group) \notin spawned
            /\ Cardinality(spawned) < MaxServed
            /\ tasks' = tasks \cup {Unwrap(group)}
            /\ spawned' = spawned \cup {Unwrap(group)}
            /\ srvLast' = "group"
            /\ UNCHANGED <<srvPc, srvErr, fin>>
    /\ UNCHANGED <<reaped, ctrlOut, ctrlEnded, srvUpdate, srvPending, codeOf>>

\* Subscribed::recv_update: todo!() panics before self.update is assigned.
\* The panic unwinds run, and the tasks still in flight are dropped with it.
recv_update(update) ==
    /\ srvPc' = "panicked"
    /\ tasks' = {}
    /\ UNCHANGED <<srvErr, srvUpdate>>

\* The second select branch: decode_maybe::<SubscribeUpdate>() on the control
\* stream gives None at the clean end of the stream, which disables the
\* branch, Some(Err) (not ok), or Some(Ok(update)), handed to recv_update.
run_control(msg, ok) ==
    /\ srvPc = "running"
    /\ srvPending = None
    /\ ~ctrlEnded
    /\ IF ~ok
       THEN /\ run_return_err("Decode")
            /\ srvLast' = "error"
            /\ UNCHANGED <<ctrlEnded, srvUpdate>>
       ELSE IF msg = None
       THEN /\ ctrlEnded' = TRUE
            /\ run_select("ended", fin, tasks, TRUE)
            /\ UNCHANGED <<srvErr, tasks, srvUpdate>>
       ELSE /\ recv_update(Unwrap(msg))
            /\ srvLast' = "update"
            /\ UNCHANGED ctrlEnded
    /\ UNCHANGED <<fin, spawned, reaped, ctrlOut, srvPending, codeOf>>

\* The third select branch, enabled while tasks is not empty: tasks.next()
\* gives the sequence and the result of a finished group task (err is None
\* for Ok).  For an Err a GroupDrop is encoded (encoded: the encoder
\* succeeds) and the loop waits for its write on the control stream.
run_task_next(sequence, err, encoded) ==
    /\ srvPc = "running"
    /\ srvPending = None
    /\ sequence \in tasks
    /\ reaped' = reaped \cup {[sequence |-> sequence, err |-> err]}
    /\ IF err = None
       THEN /\ tasks' = tasks \ {sequence}
            /\ run_select("task", fin, tasks \ {sequence}, ctrlEnded)
            /\ UNCHANGED <<srvErr, srvPending>>
       ELSE IF encoded
       THEN /\ tasks' = tasks \ {sequence}
            /\ srvPending' = Some(GroupDrop(sequence, 0, GROUP_DROP_CODE))
            /\ srvLast' = "task"
            /\ UNCHANGED <<srvPc, srvErr>>
       ELSE /\ run_return_err("Encode")
            /\ srvLast' = "task"
            /\ UNCHANGED srvPending
    /\ UNCHANGED <<fin, spawned, ctrlOut, ctrlEnded, srvUpdate, codeOf>>

\* control.writer.encode(&msg).await? of the GroupDrop, at its write: the
\* message is written and the loop goes round, or the write fails (not ok)
\* and run returns its error.
run_group_drop(ok) ==
    /\ srvPc = "running"
    /\ IsSome(srvPending)
    /\ srvPending' = None
    /\ IF ok
       THEN /\ ctrlOut' = Append(ctrlOut, Unwrap(srvPending))
            /\ run_select("task", fin, tasks, ctrlEnded)
            /\ UNCHANGED <<srvErr, tasks>>
       ELSE /\ run_return_err("Transport")
            /\ srvLast' = "task"
            /\ UNCHANGED ctrlOut
    /\ UNCHANGED <<fin, spawned, reaped, ctrlEnded, srvUpdate, codeOf>>

NextServe ==
    /\ \/ \E codes \in CodeMaps : Subscribed_new(codes)
       \/ \E err \in {None, Some("Cancel")}, group \in {None} \cup {Some(n) : n \in 0..MaxSeq} :
             run_next_group(err, group)
       \/ \E msg \in {None} \cup {Some(u) : u \in Updates}, ok \in BOOLEAN :
             run_control(msg, ok)
       \/ \E sequence \in 0..MaxSeq, err \in {None} \cup {Some(e) : e \in TaskErrors},
             encoded \in BOOLEAN :
             run_task_next(sequence, err, encoded)
       \/ \E ok \in BOOLEAN : run_group_drop(ok)
    /\ UNCHANGED <<hsVars, trackVars, queueVars, ingestVars, pubVars>>

-----------------------------------------------------------------------------
Init == InitHandshake /\ InitTrack /\ InitQueue /\ InitIngest /\ InitPublish /\ InitServe

SpecHandshake == Init /\ [][NextHandshake]_vars
SpecTrack == Init /\ [][NextTrack]_vars
SpecQueue == Init /\ [][NextQueue]_vars
SpecIngest == Init /\ [][NextIngest]_vars
SpecSubscribe == Init /\ [][NextSubscribe]_vars
SpecPublish == Init /\ [][NextPublish]_vars
SpecServe == Init /\ [][NextServe]_vars

-----------------------------------------------------------------------------
(* Handshake claims, checked under SpecHandshake                           *)

\* The downgrade matrix of the handshake, row by server role, column by client
\* role; None is an empty entry.
DowngradeMatrix ==
    [s \in Roles |->
        CASE s = "Publisher" ->
                [c \in Roles |-> IF c = "Subscriber" THEN None ELSE Some("Publisher")]
          [] s = "Subscriber" ->
                [c \in Roles |-> IF c = "Publisher" THEN None ELSE Some("Subscriber")]
          [] s = "Both" ->
                ("Publisher" :> Some("Publisher")) @@ ("Subscriber" :> Some("Subscriber"))
                @@ ("Both" :> Some("Both")) @@ ("Any" :> Some("Both"))
          [] s = "Any" ->
                ("Publisher" :> Some("Publisher")) @@ ("Subscriber" :> Some("Subscriber"))
                @@ ("Both" :> Some("Both")) @@ ("Any" :> None)]

\* setup ran on a decoded Client message that offers FORK_00.
SetupRanOnGoodVersion ==
    /\ hsPc = "done"
    /\ IsSome(clientMsg)
    /\ FORK_00 \in Unwrap(clientMsg).versions

\* C1: for every (server role, client role) pair, the handshake either sends
\* one Server message whose Role is the matrix entry (or sends nothing because
\* the write itself failed), or, when the entry is empty, fails with
\* RoleIncompatible(client, server) and sends nothing.
C1_HandshakeMatrix ==
    SetupRanOnGoodVersion =>
        LET c == Unwrap(clientMsg).role
            entry == DowngradeMatrix[serverRole][c]
        IN  IF entry = None
            THEN /\ controlSent = <<>>
                 /\ hsResult = Some(ErrRoleIncompatible(c, serverRole))
            ELSE \/ /\ controlSent = <<ServerMsg(FORK_00, Unwrap(entry))>>
                    /\ hsResult = None
                 \/ /\ controlSent = <<>>
                    /\ hsResult = Some(MkErr("Transport"))

\* C1 witness: server Publisher, client Subscriber failed with
\* RoleIncompatible(Subscriber, Publisher).
C1_Witness ==
    /\ SetupRanOnGoodVersion
    /\ serverRole = "Publisher"
    /\ Unwrap(clientMsg).role = "Subscriber"
    /\ hsResult = Some(ErrRoleIncompatible("Subscriber", "Publisher"))
    /\ controlSent = <<>>

\* C2: the role the session is started with is the effective role, the one
\* sent to the client in the Server message.
C2_SessionStartsWithEffectiveRole ==
    IsSome(sessionRole) =>
        /\ sessionRole = DowngradeMatrix[serverRole][Unwrap(clientMsg).role]
        /\ Unwrap(sessionRole) = controlSent[1].role

\* C3: a Client message without FORK_00 fails with Version(got, wanted)
\* whatever the roles are; no Server message is written, the control stream is
\* closed with the error's code and no session is started.
C3_VersionMismatch ==
    (hsPc = "done" /\ IsSome(clientMsg) /\ FORK_00 \notin Unwrap(clientMsg).versions) =>
        /\ hsResult = Some(ErrVersion(Unwrap(clientMsg).versions, {FORK_00}))
        /\ controlSent = <<>>
        /\ controlClose = Some(ErrorCode(ErrVersion(Unwrap(clientMsg).versions, {FORK_00})))
        /\ sessionRole = None

\* C3 witness: a version mismatch together with an incompatible role pair.
C3_Witness ==
    /\ hsPc = "done"
    /\ IsSome(clientMsg)
    /\ Unwrap(clientMsg).versions = {"DRAFT_A"}
    /\ DowngradeMatrix[serverRole][Unwrap(clientMsg).role] = None
    /\ IsSome(hsResult) /\ Unwrap(hsResult).kind = "Version"

-----------------------------------------------------------------------------
(* Track claims, checked under SpecTrack                                   *)

\* A step that is a call of TrackWriter::create (directly or through append)
\* on a track whose cell is open.
CreateCalled == groupsMade' # groupsMade /\ lock_mut

\* C4: the sequence of the latest group never decreases, and latest, once
\* set, is never empty again.
C4_LatestMonotonic ==
    [][IsSome(latest) =>
          /\ IsSome(latest')
          /\ Unwrap(latest').sequence >= Unwrap(latest).sequence]_vars

\* C4 witness: latest was replaced, a smaller sequence was created after it
\* and the track was closed.
C4_Witness ==
    /\ epoch >= 2
    /\ discarded # {}
    /\ IsSome(closed)
    /\ IsSome(latest)

\* C5: create(sequence) with the sequence of the latest group returns
\* Err(Duplicate) and changes nothing: latest, epoch and the cached next are
\* as before, and a reader that had seen the latest epoch still has.
C5_DuplicateLeavesState ==
    [][(CreateCalled /\ IsSome(latest) /\ trackLast'.sequence = Unwrap(latest).sequence) =>
          /\ trackLast'.res = "Duplicate"
          /\ latest' = latest
          /\ epoch' = epoch
          /\ next' = next
          /\ closed' = closed
          /\ \A r \in ReaderIds : readers[r].epoch = epoch => readers'[r].epoch = epoch']_vars

\* C5 witness: the last create was refused as a duplicate of the latest group.
C5_Witness ==
    /\ trackLast.op = "create"
    /\ trackLast.res = "Duplicate"
    /\ IsSome(latest)
    /\ trackLast.sequence = Unwrap(latest).sequence
    /\ \E r \in ReaderIds : readers[r].alive /\ readers[r].epoch = epoch

\* C6: create(sequence) with a sequence smaller than the latest returns a
\* writer and leaves latest, epoch and the cached next as they were, and no
\* next() or get() ever returns a group created that way.
C6_SmallerSequenceInvisible ==
    [][/\ (CreateCalled /\ IsSome(latest) /\ trackLast'.sequence < Unwrap(latest).sequence) =>
             /\ trackLast'.res = "Ok"
             /\ trackLast'.id \in discarded'
             /\ latest' = latest
             /\ epoch' = epoch
             /\ next' = next
       /\ IsSome(readLast'.group) => Unwrap(readLast'.group).id \notin discarded'
       /\ IsSome(latest') => Unwrap(latest').id \notin discarded']_vars

\* C6 witness: the last create returned a writer for a smaller sequence, and a
\* reader that is up to date was returned the latest group by next().
C6_Witness ==
    /\ trackLast.op = "create"
    /\ trackLast.id \in discarded
    /\ readLast.op = "next"
    /\ IsSome(readLast.group)
    /\ readers[readLast.reader].epoch = epoch
    /\ Unwrap(readLast.group).sequence > trackLast.sequence

\* C7: on a track on which only append() has been called, the k-th append
\* creates sequence k-1; and every append() on an open track succeeds (it is
\* never a Duplicate), with sequence latest.sequence + 1 (0 on an empty
\* track), and its group is the new latest.
C7_AppendSequences ==
    [][appendCount' # appendCount =>
          /\ trackLast'.op = "append"
          /\ trackLast'.res # "Duplicate"
          /\ lock_mut =>
                /\ trackLast'.res = "Ok"
                /\ trackLast'.sequence =
                      IF latest = None THEN 0 ELSE Unwrap(latest).sequence + 1
                /\ latest' = Some(Group(trackLast'.id, trackLast'.sequence))
                /\ appendsOnly => trackLast'.sequence = appendCount]_vars

\* C7 witness: an append after an explicit create made the group that follows
\* the created one.
C7_Witness ==
    /\ trackLast.op = "append"
    /\ trackLast.res = "Ok"
    /\ ~appendsOnly
    /\ trackLast.sequence = MaxSeq + 1
    /\ latest = Some(Group(trackLast.id, trackLast.sequence))

\* C13: when the writer is dropped without a close, a reader's next() or
\* closed() that has nothing more to return reports Cancel.
C13_WriterDropReportsCancel ==
    (/\ readLast.op \in {"next", "closed"}
     /\ readLast.group = None
     /\ ~writerAlive
     /\ closed = None) => readLast.res = "Cancel"

\* A step that is no call on the TrackWriter and not its drop.
NoWriterStep ==
    /\ groupsMade' = groupsMade
    /\ trackLast' = trackLast
    /\ writerAlive' = writerAlive

\* C14: reader clones are independent cursors.  A call on, a clone of, or the
\* drop of a reader leaves the shared track state alone and changes at most
\* that one reader; the cursor of a live reader moves only by its own next();
\* a reader that is behind gets the latest group from next() wherever the
\* other clones are; and a drop that leaves another clone alive does not close
\* the cell.
C14_ReaderClonesIndependent ==
    [][NoWriterStep =>
          /\ latest' = latest /\ epoch' = epoch /\ closed' = closed /\ next' = next
          /\ Cardinality({r \in ReaderIds : readers'[r] # readers[r]}) <= 1
          /\ \A r \in ReaderIds :
                (readers[r].alive /\ readers'[r].alive /\ readers'[r] # readers[r]) =>
                    /\ readers[r].epoch # epoch
                    /\ readers'[r].epoch = epoch
                    /\ readLast' = [reader |-> r, op |-> "next", res |-> "Ok",
                                    group |-> latest]
          /\ \A r \in ReaderIds :
                (/\ readers[r].alive /\ ~readers'[r].alive
                 /\ \E r2 \in ReaderIds \ {r} : readers[r2].alive) =>
                    (lock_mut' = lock_mut)]_vars

\* C14 witness: two live clones have both moved to the latest group, the
\* second of them by its own next().
C14_Witness ==
    /\ epoch >= 1
    /\ \A r \in ReaderIds :
          /\ readers[r].alive
          /\ readers[r].epoch = epoch
          /\ readers[r].last = Unwrap(latest).sequence
    /\ readLast = [reader |-> "r2", op |-> "next", res |-> "Ok", group |-> latest]

\* C15: once close(err) has set the terminal error, every create() and
\* append() fails.
C15_NoCreateAfterClose ==
    (IsSome(closed) /\ trackLast.op \in {"create", "append"}) => trackLast.res # "Ok"

\* C16: the terminal error never changes once set, and a close() on a closed
\* track returns the stored error.
C16_CloseFirstCallWins ==
    [][IsSome(closed) =>
          /\ closed' = closed
          /\ (trackLast' # trackLast /\ trackLast'.op = "close") =>
                trackLast'.res = Unwrap(closed)]_vars

\* C16 witness: a close() on a closed track returned the stored error.
C16_Witness ==
    /\ IsSome(closed)
    /\ trackLast.op = "close"
    /\ trackLast.res = Unwrap(closed)

\* C17: whenever next() moves a reader, it returns the group that is the
\* latest at that moment, and its sequence is greater than that of the group
\* the reader was returned before; next() reports a terminal error or the end
\* of the track only to a reader that has seen the latest epoch.
C17_NextReturnsIncreasingLatest ==
    [][\A r \in ReaderIds :
          /\ (readers[r].alive /\ readers'[r].alive /\ readers'[r] # readers[r]) =>
                /\ IsSome(latest)
                /\ latest' = latest
                /\ readLast' = [reader |-> r, op |-> "next", res |-> "Ok",
                                group |-> latest]
                /\ readers'[r].last = Unwrap(latest).sequence
                /\ readers[r].last < Unwrap(latest).sequence
          /\ (/\ readLast' # readLast
              /\ readLast'.reader = r
              /\ readLast'.op = "next"
              /\ readLast'.group = None) => readers[r].epoch = epoch]_vars

\* C17 witness: on a closed track a reader was returned a group by next(),
\* after an earlier group of a smaller sequence.
C17_Witness ==
    /\ IsSome(closed)
    /\ readLast.op = "next"
    /\ IsSome(readLast.group)
    /\ readers[readLast.reader].last >= 1
    /\ readers[readLast.reader].last = Unwrap(readLast.group).sequence
    /\ epoch >= 2

-----------------------------------------------------------------------------
(* Queue claims, checked under SpecQueue                                   *)

\* C8: a pop() on a closed queue returns the front item while items remain,
\* taking it out of the queue, and None once the queue is empty.
C8_PopDrainsAfterClose ==
    (queueLast.op = "pop" /\ queueLast.wasClosed) =>
        IF queueLast.before # <<>>
        THEN /\ queueLast.res = Some(Head(queueLast.before))
             /\ queue = Tail(queueLast.before)
        ELSE queueLast.res = None

\* The items of a sequence are in the order they were pushed, none twice.
InPushOrder(items) ==
    \A i, j \in DOMAIN items : i < j => items[i] < items[j]

\* C18: a pop() on a queue that is not closed never returns None; the items
\* pop() and drain() have returned are items that were pushed, each returned
\* once, in the order they were pushed, and none of them is still queued.
C18_QueueOrder ==
    /\ (queueLast.op = "pop" /\ ~queueLast.wasClosed) => queueLast.res # None
    /\ InPushOrder(delivered \o queue)
    /\ \A i \in DOMAIN delivered : delivered[i] \in 1..pushCount

\* C18 witness: three items or more were returned, the last by a pop
\* from an open queue that held two items.
C18_Witness ==
    /\ Len(delivered) >= 3
    /\ queueLast.op = "pop"
    /\ ~queueLast.wasClosed
    /\ Len(queueLast.before) = 2
    /\ queueLast.res = Some(Head(queueLast.before))

-----------------------------------------------------------------------------
(* Ingest claims, checked under SpecIngest                                 *)

FrameComplete(i) == inFrames[i].written = inFrames[i].size

\* C9: no frame is ever written more bytes than its declared size; a frame
\* has exactly size bytes when the next Frame header is decoded or the group
\* ends cleanly; and ingest fails with WrongSize when the stream ends inside a
\* frame or a chunk is longer than the bytes remaining.
C9_FrameBytes ==
    /\ \A i \in 1..Len(inFrames) : inFrames[i].written <= inFrames[i].size
    /\ \A i \in 1..(Len(inFrames) - 1) : FrameComplete(i)
    /\ (inPc = "frame" /\ inFrames # <<>>) => FrameComplete(Len(inFrames))
    /\ (inPc = "done" /\ inErr = None /\ inFrames # <<>>) => FrameComplete(Len(inFrames))
    /\ inPc = "chunk" =>
          /\ inRemain > 0
          /\ inRemain = inFrames[Len(inFrames)].size - inFrames[Len(inFrames)].written
    /\ (inLast.ev = "end" /\ inLast.remain > 0) =>
          (inPc = "done" /\ inErr = Some("WrongSize"))
    /\ (inLast.ev = "chunk" /\ inLast.len > inLast.remain) =>
          (inPc = "done" /\ inErr = Some("WrongSize"))

\* C9 witness: after a complete first frame, a chunk longer than what the
\* second frame had left ended ingest with WrongSize.
C9_Witness ==
    /\ inPc = "done"
    /\ inErr = Some("WrongSize")
    /\ Len(inFrames) = 2
    /\ inFrames[1] = [size |-> MaxSize, written |-> MaxSize]
    /\ inFrames[2].written = 1
    /\ inLast.ev = "chunk"
    /\ inLast.len > inLast.remain

\* The phases in which a subscription is live: from init_subscribe until its
\* Subscribe object is dropped.
LivePhases == {"init", "open", "sent", "live"}

\* Where the subscription with this id stands; an id that is never handed
\* out has none.
phase_of(id) == IF id \in SubIds THEN subPc[id] ELSE "none"

\* C19: an inbound group for subscribe id N is rejected with NotFound exactly
\* when no subscription with id N is live at the lookup; a group that arrives
\* after Subscribe was sent and before the subscription ended (before the
\* Info reply included) finds the writer; and a NotFound rejection creates no
\* group and changes no track.  A step from between two streams that leaves
\* every subscription where it stands is the lookup of serve_group.
C19_NotFoundIffNotLive ==
    [][(inPc \in {"idle", "done"} /\ subPc' = subPc /\ IsSome(inGroup')) =>
          LET N == Unwrap(inGroup').subscribe
          IN  /\ (inErr' = Some("NotFound")) <=> (phase_of(N) \notin LivePhases)
              /\ phase_of(N) \in {"sent", "live"} => inErr' # Some("NotFound")
              /\ inErr' = Some("NotFound") =>
                     /\ inPc' = "done"
                     /\ subTrack' = subTrack
                     /\ inMade' = inMade
                     /\ tracksTable' = tracksTable]_vars

\* C19 witness: with two subscriptions in the table, a group for the one
\* whose Subscribe was sent and whose Info reply is outstanding found the
\* writer, and the group was created on that track and on no other.
C19_Witness ==
    /\ subPc[0] = "sent"
    /\ subPc[1] = "live"
    /\ tracksTable = {0, 1}
    /\ inPc = "frame"
    /\ inLast = NoRead
    /\ inErr = None
    /\ IsSome(inGroup)
    /\ Unwrap(inGroup).subscribe = 0
    /\ IsSome(subTrack[0].latest)
    /\ Unwrap(subTrack[0].latest).sequence = Unwrap(inGroup).sequence
    /\ subTrack[1].latest = None

\* The table holds exactly the ids of the live subscriptions.
TableMatchesLive ==
    tracksTable = {id \in SubIds : subPc[id] \in LivePhases}

\* C21: the table has an entry for an id exactly while the subscription that
\* allocated the id is live, so it is empty whenever every subscription made
\* so far has failed or ended; the entry goes when the subscription fails or
\* its background task ends; and an id is handed out once: a new subscription
\* takes an id no subscription has had, and an ended one never comes back.
C21_TableEntryWhileLive ==
    /\ TableMatchesLive
    /\ [][/\ TableMatchesLive'
          /\ \A id \in SubIds :
                 /\ (subPc[id] \in LivePhases /\ subPc'[id] = "ended") => id \notin tracksTable'
                 /\ subPc[id] = "ended" => subPc'[id] = "ended"
                 /\ (subPc[id] # "init" /\ subPc'[id] = "init") =>
                        /\ subPc[id] = "none"
                        /\ id = nextId
                        /\ nextId' = nextId + 1
          /\ nextId' # nextId =>
                 /\ nextId' = nextId + 1
                 /\ subPc[nextId] = "none"
                 /\ subPc'[nextId] = "init"
                 /\ tracksTable' = tracksTable \cup {nextId}]_vars

\* C21 witness: two subscriptions were made, the first failed before its
\* Info reply with no handle of its track left, the second was handed to
\* its caller, received a group and has ended, and the table is empty.
C21_Witness ==
    /\ nextId >= 2
    /\ subPc[0] = "ended"
    /\ subPc[1] = "ended"
    /\ tracksTable = {}
    /\ subTrack[0].readers = 0
    /\ subTrack[1].readers = 1
    /\ ~subTrack[1].writer
    /\ IsSome(subTrack[1].latest)

-----------------------------------------------------------------------------
(* Publisher claims, checked under SpecPublish                             *)

\* The payload bytes that follow position j up to the next Frame header.
RECURSIVE BytesAfter(_, _)
BytesAfter(out, j) ==
    IF j > Len(out) \/ out[j].t # "bytes" THEN 0
    ELSE out[j].n + BytesAfter(out, j + 1)

\* C10: a uni-stream of a group task carries the tag StreamUni::Group, then
\* the Group message of the subscription and group, then Frame headers, each
\* followed by its payload: no payload byte comes before a Frame header, and
\* when the task ends without error every Frame{size} is followed by exactly
\* size bytes.
C10_UniStreamLayout ==
    /\ Len(uniOut) >= 1 => uniOut[1] = TagItem("Group")
    /\ Len(uniOut) >= 2 => uniOut[2] = GroupItem(pubGroup)
    /\ \A i \in 3..Len(uniOut) :
          /\ uniOut[i].t \in {"Frame", "bytes"}
          /\ uniOut[i].t = "bytes" => uniOut[i - 1].t \in {"Frame", "bytes"}
          /\ (uniOut[i].t = "Frame" /\ pubPc = "done" /\ pubErr = None) =>
                BytesAfter(uniOut, i + 1) = uniOut[i].n

-----------------------------------------------------------------------------
(* Serve loop claims, checked under SpecServe                              *)

\* The GroupDrop messages sent for the group of this sequence.
DropsFor(sequence) == {i \in DOMAIN ctrlOut : ctrlOut[i].sequence = sequence}

\* C11: while the serve loop runs and waits for no write, every group task
\* that ended with an error has exactly one GroupDrop on the control stream,
\* carrying the task's sequence, count 0 and the code of that error, and a
\* group task that ended with Ok has none.
C11_GroupDropPerFailedTask ==
    (srvPc = "running" /\ srvPending = None) =>
        \A t \in reaped :
            IF IsSome(t.err)
            THEN /\ Cardinality(DropsFor(t.sequence)) = 1
                 /\ \A i \in DropsFor(t.sequence) :
                        ctrlOut[i] = GroupDrop(t.sequence, 0, codeOf[Unwrap(t.err)])
            ELSE DropsFor(t.sequence) = {}

\* C12: after a SubscribeUpdate has been received the serve loop is still
\* running and holds the update.
C12_UpdateKeepsServing ==
    srvLast = "update" => (srvPc = "running" /\ IsSome(srvUpdate))

\* C20: once the track has closed cleanly, every group task has completed
\* and the peer has closed the control stream, with no write outstanding,
\* the serve loop has returned: it is neither still in its select with no
\* branch left nor ended by a panic.
C20_ServeLoopReturns ==
    (srvPc # "none" /\ fin /\ tasks = {} /\ ctrlEnded /\ srvPending = None) =>
        srvPc = "returned"

=============================================================================
